---- MODULE Spec2Model ----
(***************************************************************************)
(* Model of the fuzzy user-resolution routine find_jira_user of the        *)
(* excel2jira scripts (src/excel2jira/excel2jira-v2.py and                 *)
(* src/excel2jira/excel2jira-qbv.py, lines 69-147, identical in both).     *)
(*                                                                         *)
(* One invocation is a sequence of steps separated by the blocking calls   *)
(* to the directory service, jira._get_json('user/search', ...).  The      *)
(* directory service is external: every call may raise, or return any      *)
(* JSON value built from the entries of a small universe.                  *)
(*                                                                         *)
(* Around the routine, the module models the loops of both scripts over    *)
(* the rows of the sheet (SpecRows), the scripts from their first          *)
(* statement through the start-up checks (SpecScript), and the helpers of  *)
(* excel2jira-v2.py that compute without the server (SpecHelpers).         *)
(***************************************************************************)
EXTENDS Integers, Sequences, FiniteSets

VARIABLES
    pc,              \* position of the caller: "idle", "email", "search", "done"
    search_value,    \* the argument of find_jira_user
    idx,             \* index into email_patterns of the next candidate
    calls,           \* the directory calls of this invocation, with their answers
    users,           \* the answer of the broader search (line 111)
    filtered_users,  \* the list of (user, max_similarity) built at lines 116-131
    best_match,      \* the entry chosen at line 134
    result,          \* the value returned to the caller
    raised,          \* TRUE when an exception left find_jira_user
    snapshot,        \* what a fixed directory has answered so far, and the first result
    DEFAULT_PROJECT_KEY, \* module-level variable, rebound from args.project in main
    script,          \* the script that runs: "v2", "qbv", or "none" (resolver alone)
    update,          \* args.update of excel2jira-v2.py
    rpc,             \* position of the script in its loop over the rows
    row_idx,         \* number of the row being processed (0 before the first)
    row,             \* the cells of the row being processed
    loc,             \* the locals of the loop body for this row
    failed_tasks,    \* the lists of main, each entry naming its row
    failed_users,
    skipped_issues,
    created_issues,
    updated_issues,
    issues,          \* the issues created or updated on the server so far
    passed,          \* the start-up steps of the script that succeeded, in order
    exit_status,     \* the exit status of the process and the step that ended it
    helper           \* the helper of excel2jira-v2.py applied, its argument and results

\* the locals of one invocation of find_jira_user
resolverVars == <<pc, search_value, idx, calls, users, filtered_users, best_match, result, raised>>

\* the state of main around the invocations
callerVars == <<DEFAULT_PROJECT_KEY, script, update, rpc, row_idx, row, loc,
                failed_tasks, failed_users, skipped_issues, created_issues,
                updated_issues, issues, passed, exit_status, helper>>

vars == <<resolverVars, snapshot, callerVars>>

(***************************************************************************)
(* Python values.  A str is the tuple of its characters, each a            *)
(* one-character string; None, a float (the NaN of a missing spreadsheet   *)
(* cell) and a key missing from a dict are distinct tagged values.         *)
(***************************************************************************)
Str(s) == [t |-> "str", v |-> s]
None == [t |-> "NoneType", v |-> <<>>]
NaN == [t |-> "float", v |-> <<>>]
Absent == [t |-> "absent", v |-> <<>>]
IsStr(x) == x.t = "str"

\* dict.get(key, default) on a directory entry
Get(user, key, default) == IF user[key] = Absent THEN default ELSE user[key]

(***************************************************************************)
(* str methods used by the routine.                                        *)
(***************************************************************************)
UpperChars == <<"A","B","C","D","E","F","G","H","I","J","K","L","M",
                "N","O","P","Q","R","S","T","U","V","W","X","Y","Z">>
LowerChars == <<"a","b","c","d","e","f","g","h","i","j","k","l","m",
                "n","o","p","q","r","s","t","u","v","w","x","y","z">>

LowerChar(c) ==
    IF \E i \in 1..Len(UpperChars) : UpperChars[i] = c
    THEN LowerChars[CHOOSE i \in 1..Len(UpperChars) : UpperChars[i] = c]
    ELSE c

\* s.lower()
Lower(s) == [i \in 1..Len(s) |-> LowerChar(s[i])]

RECURSIVE Replace(_, _, _)
\* s.replace(old, new) for a one-character old and a new of length 0 or 1
Replace(s, old, new) ==
    IF s = <<>> THEN <<>>
    ELSE (IF Head(s) = old THEN new ELSE <<Head(s)>>) \o Replace(Tail(s), old, new)

\* c in s
Contains(s, c) == \E i \in 1..Len(s) : s[i] = c

(***************************************************************************)
(* difflib.SequenceMatcher(None, a, b).ratio(): 2*M/T, where T is the sum  *)
(* of the two lengths and M the number of matched characters found by      *)
(* taking the longest matching block (the earliest in a, then the earliest *)
(* in b, among the longest) and recursing on the pieces to its left and to *)
(* its right.  A ratio is kept exact, as the fraction [n, d].              *)
(***************************************************************************)
RECURSIVE MatchLen(_, _, _, _, _, _)
\* length of the common run a[i..] = b[j..] inside a[..ahi], b[..bhi]
MatchLen(a, b, i, j, ahi, bhi) ==
    IF i > ahi \/ j > bhi \/ a[i] # b[j] THEN 0
    ELSE 1 + MatchLen(a, b, i + 1, j + 1, ahi, bhi)

\* find_longest_match(alo, ahi, blo, bhi), as <<i, j, k>>; k = 0 when none
FindLongestMatch(a, b, alo, ahi, blo, bhi) ==
    LET blocks == {<<i, j, MatchLen(a, b, i, j, ahi, bhi)>> : i \in alo..ahi, j \in blo..bhi}
        Better(x, y) == \/ x[3] > y[3]
                        \/ x[3] = y[3] /\ x[1] < y[1]
                        \/ x[3] = y[3] /\ x[1] = y[1] /\ x[2] < y[2]
    IN  IF blocks = {} THEN <<alo, blo, 0>>
        ELSE CHOOSE x \in blocks : \A y \in blocks \ {x} : Better(x, y)

RECURSIVE Matches(_, _, _, _, _, _)
\* sum of the sizes of get_matching_blocks() inside a[alo..ahi], b[blo..bhi]
Matches(a, b, alo, ahi, blo, bhi) ==
    IF alo > ahi \/ blo > bhi THEN 0
    ELSE LET m == FindLongestMatch(a, b, alo, ahi, blo, bhi)
         IN  IF m[3] = 0 THEN 0
             ELSE m[3] + Matches(a, b, alo, m[1] - 1, blo, m[2] - 1)
                       + Matches(a, b, m[1] + m[3], ahi, m[2] + m[3], bhi)

\* SequenceMatcher.ratio(): 1.0 when both strings are empty
Ratio(a, b) ==
    IF Len(a) + Len(b) = 0 THEN [n |-> 1, d |-> 1]
    ELSE [n |-> 2 * Matches(a, b, 1, Len(a), 1, Len(b)), d |-> Len(a) + Len(b)]

\* comparisons of ratios
Gt(r, s) == r.n * s.d > s.n * r.d
Ge(r, s) == r.n * s.d >= s.n * r.d

\* the literal 0.6 of line 127
Threshold == [n |-> 6, d |-> 10]

\* max(x, y, z) of line 124: the first of the largest
Max3(x, y, z) ==
    LET m == IF Gt(y, x) THEN y ELSE x
    IN  IF Gt(z, m) THEN z ELSE m

(***************************************************************************)
(* The directory service.  Entries is the universe of the elements an      *)
(* answer may contain: directory entries, some with missing keys or a JSON *)
(* null, and one element that is not a JSON object.                        *)
(***************************************************************************)
Entry(name, displayName, emailAddress, accountId) ==
    [dict |-> TRUE, name |-> name, displayName |-> displayName,
     emailAddress |-> emailAddress, accountId |-> accountId]

\* a JSON string where an entry is expected
NonDict ==
    [dict |-> FALSE, name |-> Absent, displayName |-> Absent,
     emailAddress |-> Absent, accountId |-> Absent]

E1 == Entry(Absent, Str(<<"J"," ","D">>), Str(<<"j","@","x">>), Str(<<"1">>))
E2 == Entry(Str(<<"j"," ","d">>), Str(<<"z","z">>), Absent, Str(<<"2">>))
E3 == Entry(Absent, Str(<<"J"," ","D","x">>), Absent, Str(<<"3">>))
E4 == Entry(Absent, Str(<<"J"," ","D","x","x","x","x">>), Absent, Str(<<"4">>))
E5 == Entry(Absent, None, Absent, Str(<<"5">>))
E6 == Entry(Absent, Str(<<"J"," ","D">>), Absent, Absent)

Entries == {E1, E2, E3, E4, E5, E6, NonDict}

\* the arguments find_jira_user is called with: names, an e-mail address, the
\* empty string and the NaN of an empty cell
SearchValues ==
    {Str(<<"J"," ","D">>), Str(<<"j","@","x">>), Str(<<"z","q">>), Str(<<>>), NaN}

\* the texts similar() is applied to: the queries, and the fields of the
\* entries, a missing one read as the empty string
QueryTexts == {x.v : x \in {y \in SearchValues : IsStr(y)}}
FieldTexts ==
    {<<>>} \cup {e[k].v : e \in Entries, k \in {"name", "displayName", "emailAddress"}}

\* the ratio of lines 69-71 for the texts above, computed once
SimilarityTable == [a \in QueryTexts, b \in FieldTexts |-> Ratio(Lower(a), Lower(b))]

\* similar(a, b), lines 69-71
similar(a, b) == SimilarityTable[a, b]

\* the longest answer of the directory service that is modelled
MaxUsers == 2

\* 'maxResults' of the two requests
MaxResultsEmail == 1
MaxResultsSearch == 50

Min(a, b) == IF a < b THEN a ELSE b

\* what jira._get_json('user/search', params) may do: raise, or return JSON
\* null, a JSON object (an error body), or an array of at most maxResults elements
Responses(maxResults) ==
    {[kind |-> k, body |-> <<>>] : k \in {"raise", "null", "object"}}
    \cup {[kind |-> "array", body |-> b] :
            b \in UNION {[1..n -> Entries] : n \in 0..Min(maxResults, MaxUsers)}}

NoResponse == [kind |-> "none", body |-> <<>>]

(***************************************************************************)
(* find_jira_user, lines 73-147.                                           *)
(***************************************************************************)
SUFFIX == <<"@","f","i","n","a","l",".","c","o",".","i","l">>

\* a slip in lines 81-86: the lower-cased candidate is tried before the unmodified one
email_patterns_lower_first(s) ==
    << Lower(s) \o SUFFIX,
       s \o SUFFIX,
       Replace(s, " ", <<>>) \o SUFFIX,
       Lower(Replace(s, " ", <<".">>)) \o SUFFIX >>

\* lines 81-86
email_patterns(s) ==
    << s \o SUFFIX,
       Lower(s) \o SUFFIX,
       Replace(s, " ", <<>>) \o SUFFIX,
       Lower(Replace(s, " ", <<".">>)) \o SUFFIX >>

\* a slip in line 78: the email patterns are tried for every query
TriesEmailAlways(s) == TRUE

\* variant: the email-pattern step runs only until a first result was returned
TriesEmailOnce(s) == ~Contains(s, "@") /\ snapshot.first = Absent

\* line 78: the email patterns are tried only without an '@'
TriesEmail(s) == ~Contains(s, "@")

\* lines 145-147 left out: the exception reaches the caller
OuterExceptMissing == [raised |-> TRUE, result |-> None]

\* lines 145-147: what the outermost handler makes of an exception
OuterExcept == [raised |-> FALSE, result |-> None]

\* a slip in lines 79-102: the try is inside the loop, so that a failure
\* counts as no match for that candidate only
EmailOutcomeFailIsMiss(resp) ==
    CASE resp.kind = "raise" -> "miss"
      [] resp.kind = "null" -> "miss"
      [] resp.kind = "object" -> "miss"
      [] resp.kind = "array" ->
            IF Len(resp.body) = 0 THEN "miss"
            ELSE IF resp.body[1].dict THEN "hit" ELSE "miss"

\* lines 94-100 on one answer: "hit" returns, "miss" goes on with the next
\* pattern, "fail" is an exception (raised by the call, users[0] on a JSON
\* object, user.get on an element that is no object)
EmailOutcome(resp) ==
    CASE resp.kind = "raise" -> "fail"
      [] resp.kind = "null" -> "miss"
      [] resp.kind = "object" -> "fail"
      [] resp.kind = "array" ->
            IF Len(resp.body) = 0 THEN "miss"
            ELSE IF resp.body[1].dict THEN "hit" ELSE "fail"

\* line 97 and line 100
EmailResult(resp) == Get(resp.body[1], "accountId", None)

\* a slip in lines 88-100: the routine gives up after the last pattern
NextAfterMissGivesUp(i) == IF i < Len(email_patterns(<<>>)) THEN "email" ELSE "done"

\* line 88: the loop goes on to the next pattern, and past the last one to
\* the broader search
NextAfterMiss(i) == IF i < Len(email_patterns(<<>>)) THEN "email" ELSE "search"

\* a retry in lines 101-102: the failed candidate is looked up again
NextAfterFailureRetries == "email"

\* lines 101-102 left out: the exception ends the invocation in the outer handler
NextAfterFailureGivesUp == "done"

\* lines 101-102: the handler of the email step logs and falls through
NextAfterFailure == "search"

\* lines 119-121 can be evaluated: user.get exists and no field is a non-str
Scoreable(user) ==
    /\ user.dict
    /\ \A k \in {"name", "displayName", "emailAddress"} : IsStr(Get(user, k, Str(<<>>)))

\* a slip in lines 119-124: the displayName is not scored
max_similarity_no_display(q, user) ==
    Max3(similar(q, Get(user, "name", Str(<<>>)).v),
         similar(q, Get(user, "name", Str(<<>>)).v),
         similar(q, Get(user, "emailAddress", Str(<<>>)).v))

\* a slip in lines 119-124: the username is not scored
max_similarity_no_name(q, user) ==
    Max3(similar(q, Get(user, "displayName", Str(<<>>)).v),
         similar(q, Get(user, "displayName", Str(<<>>)).v),
         similar(q, Get(user, "emailAddress", Str(<<>>)).v))

\* lines 119-124
max_similarity(q, user) ==
    Max3(similar(q, Get(user, "name", Str(<<>>)).v),
         similar(q, Get(user, "displayName", Str(<<>>)).v),
         similar(q, Get(user, "emailAddress", Str(<<>>)).v))

\* a slip in line 127: >= in place of >
SurvivesInclusive(score) == Ge(score, Threshold)

\* line 127 left out: every candidate is kept
SurvivesAll(score) == TRUE

\* line 127
Survives(score) == Gt(score, Threshold)

RECURSIVE FilterUsers(_, _)
\* lines 116-128 over a list of scoreable users
FilterUsers(q, us) ==
    IF us = <<>> THEN <<>>
    ELSE LET sc == max_similarity(q, Head(us))
         IN  (IF Survives(sc) THEN <<[user |-> Head(us), score |-> sc]>> ELSE <<>>)
             \o FilterUsers(q, Tail(us))

\* an unstable sort: x goes in front of the elements it ties with
InsertPosUnstable(x, sorted) ==
    Cardinality({i \in 1..Len(sorted) : Gt(sorted[i].score, x.score)})

\* where list.sort(key=..., reverse=True) puts x in an already sorted list
\* when it comes after all of its elements in the original order: behind
\* every element that is not smaller (the sort is stable)
InsertPos(x, sorted) ==
    Cardinality({i \in 1..Len(sorted) : Ge(sorted[i].score, x.score)})

RECURSIVE SortAsc(_)
\* reverse=True left out of line 131: a stable ascending sort
SortAsc(l) ==
    IF l = <<>> THEN <<>>
    ELSE LET front == SortAsc(SubSeq(l, 1, Len(l) - 1))
             x == l[Len(l)]
             p == Cardinality({i \in 1..Len(front) : Ge(x.score, front[i].score)})
         IN  SubSeq(front, 1, p) \o <<x>> \o SubSeq(front, p + 1, Len(front))

RECURSIVE SortDesc(_)
\* line 131
SortDesc(l) ==
    IF l = <<>> THEN <<>>
    ELSE LET front == SortDesc(SubSeq(l, 1, Len(l) - 1))
             x == l[Len(l)]
             p == InsertPos(x, front)
         IN  SubSeq(front, 1, p) \o <<x>> \o SubSeq(front, p + 1, Len(front))

\* lines 105-144 on the answer of the broader search
DirectSearch(q, resp) ==
    LET nothing == [filtered |-> <<>>, best |-> None, result |-> None]
    IN  IF resp.kind # "array" \/ resp.body = <<>> THEN nothing
        ELSE LET bad == {i \in 1..Len(resp.body) : ~Scoreable(resp.body[i])}
                 n == IF bad = {} THEN Len(resp.body)
                      ELSE (CHOOSE i \in bad : \A j \in bad : i <= j) - 1
                 scored == FilterUsers(q, SubSeq(resp.body, 1, n))
                 sorted == SortDesc(scored)
             IN  IF bad # {} THEN [nothing EXCEPT !.filtered = scored]
                 ELSE IF sorted = <<>> THEN nothing
                 ELSE [filtered |-> sorted, best |-> sorted[1].user,
                       result |-> Get(sorted[1].user, "accountId", None)]

\* nothing has been asked of the directory yet
NoSnapshot == [tracked |-> Absent, answers |-> {}, first |-> Absent]

\* the cells and the locals of no row
NoRow == [pm |-> Absent, lead |-> Absent, type |-> Absent]
NoFields == [summary |-> Absent, description |-> Absent, assignee |-> Absent,
             issuetype |-> Absent]
NoRequest == [op |-> "none", fields |-> NoFields]
NoLoc == [project_manager_account_id |-> Absent, lead |-> Absent,
          user_account_id |-> Absent, lead_lookups |-> 0, fields |-> NoFields,
          existing_issues |-> FALSE, current_fields |-> {}, searched |-> "unsent",
          request |-> NoRequest, answered |-> "unsent", outcome |-> "none"]

\* the process runs
NotExited == [code |-> "none", at |-> "none"]

\* no helper has been applied
NoHelper == [fn |-> "none", arg |-> Absent, out |-> Absent, follow |-> Absent]

\* the start-up of both scripts, in the order of the statements: lines 42-47,
\* 271-279, 282-289, 292-314, 317-355 and 358-363 of excel2jira-v2.py
StartupChecks == <<"env", "auth", "access", "fields", "load", "columns">>

\* the steps a script takes before its loop: the connection of line 67
\* follows the environment, and excel2jira-v2.py parses its arguments next
StartupSteps(sc) ==
    <<"env", "connect">> \o (IF sc = "v2" THEN <<"args">> ELSE <<>>) \o Tail(StartupChecks)

\* find_jira_user is exercised on its own, outside the scripts' loops
NoCaller ==
    /\ DEFAULT_PROJECT_KEY = "ITDVPS"
    /\ script = "none"
    /\ update = FALSE
    /\ rpc = "none"
    /\ row_idx = 0
    /\ row = NoRow
    /\ loc = NoLoc
    /\ failed_tasks = <<>>
    /\ failed_users = <<>>
    /\ skipped_issues = <<>>
    /\ created_issues = <<>>
    /\ updated_issues = <<>>
    /\ issues = <<>>
    /\ passed = <<>>
    /\ exit_status = NotExited
    /\ helper = NoHelper

\* no invocation of find_jira_user is in progress
ResolverInit ==
    /\ pc = "idle"
    /\ search_value = None
    /\ idx = 0
    /\ calls = <<>>
    /\ users = NoResponse
    /\ filtered_users = <<>>
    /\ best_match = None
    /\ result = None
    /\ raised = FALSE

Init ==
    /\ ResolverInit
    /\ snapshot = NoSnapshot
    /\ NoCaller

\* the caller invokes find_jira_user(sv): lines 75-78
Call(sv) ==
    /\ pc = "idle"
    /\ search_value' = sv
    /\ calls' = <<>>
    /\ users' = NoResponse
    /\ filtered_users' = <<>>
    /\ best_match' = None
    /\ IF ~IsStr(sv)
       THEN \* '@' not in search_value raises TypeError
            /\ pc' = "done"
            /\ idx' = 0
            /\ result' = OuterExcept.result
            /\ raised' = OuterExcept.raised
       ELSE /\ pc' = IF TriesEmail(sv.v) THEN "email" ELSE "search"
            /\ idx' = IF TriesEmail(sv.v) THEN 1 ELSE 0
            /\ result' = None
            /\ raised' = FALSE

\* one round of the loop of lines 88-100, with the handler of lines 101-102
EmailLookup(resp) ==
    /\ pc = "email"
    /\ calls' = Append(calls, [step |-> "email",
                               query |-> email_patterns(search_value.v)[idx],
                               maxResults |-> MaxResultsEmail,
                               response |-> resp])
    /\ pc' = CASE EmailOutcome(resp) = "hit" -> "done"
               [] EmailOutcome(resp) = "miss" -> NextAfterMiss(idx)
               [] EmailOutcome(resp) = "fail" -> NextAfterFailure
    /\ idx' = IF EmailOutcome(resp) = "miss" /\ NextAfterMiss(idx) = "email"
              THEN idx + 1 ELSE idx
    /\ result' = IF EmailOutcome(resp) = "hit" THEN EmailResult(resp) ELSE None
    /\ UNCHANGED <<search_value, users, filtered_users, best_match, raised>>

\* lines 105-144: the broader search, the ranking and the return
Search(resp) ==
    /\ pc = "search"
    /\ calls' = Append(calls, [step |-> "search",
                               query |-> search_value.v,
                               maxResults |-> MaxResultsSearch,
                               response |-> resp])
    /\ users' = resp
    /\ LET out == DirectSearch(search_value.v, resp)
       IN  /\ filtered_users' = out.filtered
           /\ best_match' = out.best
           /\ result' = out.result
    /\ pc' = "done"
    /\ UNCHANGED <<search_value, idx, raised>>

\* the caller takes the result; the locals of the invocation are gone
Return ==
    /\ pc = "done"
    /\ pc' = "idle"
    /\ search_value' = None
    /\ idx' = 0
    /\ calls' = <<>>
    /\ users' = NoResponse
    /\ filtered_users' = <<>>
    /\ best_match' = None
    /\ result' = None
    /\ raised' = FALSE

\* variant: the routine itself records a failure in the list of its caller
ResolverFrameRecordsFailure ==
    /\ failed_users' = Append(failed_users, [row |-> row_idx])
    /\ UNCHANGED <<DEFAULT_PROJECT_KEY, script, update, rpc, row_idx, row, loc,
                   failed_tasks, skipped_issues, created_issues, updated_issues,
                   issues, passed, exit_status, helper>>

\* find_jira_user assigns its parameter and its locals only: no global
\* statement, no argument mutated, no request other than 'user/search'
ResolverFrame == UNCHANGED callerVars

Next ==
    \/ \E sv \in SearchValues : Call(sv) /\ ResolverFrame /\ UNCHANGED snapshot
    \/ \E resp \in Responses(MaxResultsEmail) :
          EmailLookup(resp) /\ ResolverFrame /\ UNCHANGED snapshot
    \/ \E resp \in Responses(MaxResultsSearch) :
          Search(resp) /\ ResolverFrame /\ UNCHANGED snapshot
    \/ Return /\ ResolverFrame /\ UNCHANGED snapshot

Spec == Init /\ [][Next]_vars

(***************************************************************************)
(* Repeated invocations against a directory in an unchanged state: the     *)
(* same request (query, maxResults) always gets the same answer.  The      *)
(* first argument invoked is tracked; the answers its invocations get are  *)
(* recorded as they are given, and so is the first result.                 *)
(***************************************************************************)
SnapshotBodies == {<<>>, <<E1>>, <<E2, E1>>}

SnapshotResponses(maxResults) ==
    {[kind |-> "raise", body |-> <<>>]}
    \cup {[kind |-> "array", body |-> b] :
            b \in {c \in SnapshotBodies : Len(c) <= maxResults}}

\* the invocation in progress is one of the tracked argument
Tracked == pc # "idle" /\ search_value = snapshot.tracked

\* the answer agrees with what the directory answered to the same request
Consistent(q, m, resp) ==
    \A a \in snapshot.answers :
        (a.query = q /\ a.maxResults = m) => a.response = resp

Recorded(q, m, resp) ==
    IF Tracked
    THEN [snapshot EXCEPT !.answers =
            @ \cup {[query |-> q, maxResults |-> m, response |-> resp]}]
    ELSE snapshot

SnapshotCall(sv) ==
    /\ Call(sv)
    /\ snapshot' = IF snapshot.tracked = Absent
                   THEN [snapshot EXCEPT !.tracked = sv] ELSE snapshot
    /\ ResolverFrame

SnapshotEmailLookup(resp) ==
    /\ EmailLookup(resp)
    /\ Consistent(email_patterns(search_value.v)[idx], MaxResultsEmail, resp)
    /\ snapshot' = Recorded(email_patterns(search_value.v)[idx], MaxResultsEmail, resp)
    /\ ResolverFrame

SnapshotSearch(resp) ==
    /\ Search(resp)
    /\ Consistent(search_value.v, MaxResultsSearch, resp)
    /\ snapshot' = Recorded(search_value.v, MaxResultsSearch, resp)
    /\ ResolverFrame

SnapshotReturn ==
    /\ Return
    /\ snapshot' = IF Tracked /\ snapshot.first = Absent
                   THEN [snapshot EXCEPT !.first = result] ELSE snapshot
    /\ UNCHANGED callerVars

SnapshotNext ==
    \/ \E sv \in SearchValues : SnapshotCall(sv)
    \/ \E resp \in SnapshotResponses(MaxResultsEmail) : SnapshotEmailLookup(resp)
    \/ \E resp \in SnapshotResponses(MaxResultsSearch) : SnapshotSearch(resp)
    \/ SnapshotReturn

SpecSnapshot == Init /\ [][SnapshotNext]_vars

(***************************************************************************)
(* The loops over the rows of the spreadsheet: excel2jira-v2.py lines      *)
(* 408-654 and excel2jira-qbv.py lines 244-290.  The sheet is read row by  *)
(* row; the issue API (search_issues, create_issue, issue, update) is      *)
(* external and may raise at every request.                                *)
(***************************************************************************)
\* the longest sheet
MaxRows == 2

EPIC == <<"e","p","i","c">>
QBV == <<"q","b","v">>
PROJECT == <<"p","r","o","j","e","c","t">>
ONGOING == <<"o","n","-","g","o","i","n","g">>

\* str(row['project name']), and the 'issuetype' of the three kinds of issue
ProjectName == Str(<<"p">>)
EpicType == Str(<<"E","p","i","c">>)
QbvTypeId == Str(<<"1","0","2","2","2">>)
StoryType == Str(<<"S","t","o","r","y">>)

\* a cell that holds a number
Number == [t |-> "float", v |-> <<"7">>]

\* the 'issue type' cells: the four types, an empty cell and a number
TypeCells == {Str(<<"E","p","i","c">>), Str(QBV), Str(PROJECT), Str(ONGOING), NaN, Number}

\* the rows of a sheet: 'project manager', 'lead' and 'issue type'
Rows == [pm : {Str(<<"z","q">>), NaN}, lead : {Str(<<"j","@","x">>), NaN}, type : TypeCells]

\* what the directory answers while a script runs
RowResponses ==
    {[kind |-> "raise", body |-> <<>>],
     [kind |-> "array", body |-> <<>>],
     [kind |-> "array", body |-> <<E1>>]}

\* x if pd.notna(x) else None
NotNa(x) == IF x = NaN THEN None ELSE x

\* the truth value Python gives x in a condition
Truthy(x) ==
    CASE x.t = "str" -> x.v # <<>>
      [] x.t = "float" -> TRUE
      [] OTHER -> FALSE

\* issue_type and issue_type.lower() == t, for an issue_type that is a str or None
IsType(x, t) == Truthy(x) /\ IsStr(x) /\ Lower(x.v) = t

\* the text an f-string puts for x
Format(x) ==
    CASE x = NaN -> <<"n","a","n">>
      [] x = None -> <<"N","o","n","e">>
      [] OTHER -> x.v

\* variant: the mention is always built from the account identifier
MentionOfAccountAlways(account_id, cell) ==
    [t |-> "mention of account", v |-> Format(account_id)]

\* f"@[~{project_manager_account_id}]" if project_manager_account_id else f"@{row['project manager']}"
Mention(account_id, cell) ==
    IF Truthy(account_id)
    THEN [t |-> "mention of account", v |-> Format(account_id)]
    ELSE [t |-> "mention of text", v |-> Format(cell)]

\* the position after the handling of the lead at lines 443-449 / 275-281
AfterLead == IF script = "v2" THEN "try" ELSE "submit"

\* an entry of one of the lists of main
ListEntry(n, note) == [row |-> n, note |-> note]

\* the rest of main around the loop stays as it is
LoopFrame == UNCHANGED <<DEFAULT_PROJECT_KEY, script, update, passed, exit_status, helper>>

RowsInit ==
    /\ ResolverInit
    /\ snapshot = NoSnapshot
    /\ DEFAULT_PROJECT_KEY = "ITDVPS"
    /\ script \in {"v2", "qbv"}
    /\ update \in IF script = "v2" THEN BOOLEAN ELSE {FALSE}
    /\ rpc = "loop"
    /\ row_idx = 0
    /\ row = NoRow
    /\ loc = NoLoc
    /\ failed_tasks = <<>>
    /\ failed_users = <<>>
    /\ skipped_issues = <<>>
    /\ created_issues = <<>>
    /\ updated_issues = <<>>
    /\ issues = <<>>
    /\ passed = StartupSteps(script)
    /\ exit_status = NotExited
    /\ helper = NoHelper

\* the for statement yields the next row; excel2jira-qbv.py passes over the
\* rows that are not of type 'qbv', and breaks on a type that has no lower()
ReadRow(r) ==
    /\ rpc = "loop"
    /\ pc = "idle"
    /\ row_idx < MaxRows
    /\ row_idx' = row_idx + 1
    /\ row' = r
    /\ IF script = "qbv" /\ Truthy(NotNa(r.type)) /\ ~IsStr(r.type)
       THEN rpc' = "aborted" /\ loc' = [NoLoc EXCEPT !.outcome = "aborted"]
       ELSE IF script = "qbv" /\ ~IsType(NotNa(r.type), QBV)
       THEN rpc' = "loop" /\ loc' = [NoLoc EXCEPT !.outcome = "passed"]
       ELSE rpc' = "pm" /\ loc' = NoLoc
    /\ LoopFrame
    /\ UNCHANGED <<failed_tasks, failed_users, skipped_issues, created_issues,
                   updated_issues, issues>>
    /\ UNCHANGED <<resolverVars, snapshot>>

\* the sheet has no more rows; the sheet excel2jira-v2.py has loaded holds a
\* row, its df.iloc[0] of line 330 fails the load otherwise
Finish ==
    /\ rpc = "loop"
    /\ pc = "idle"
    /\ script = "v2" => row_idx > 0
    /\ rpc' = "end"
    /\ LoopFrame
    /\ UNCHANGED <<row_idx, row, loc, failed_tasks, failed_users, skipped_issues,
                   created_issues, updated_issues, issues>>
    /\ UNCHANGED <<resolverVars, snapshot>>

\* the argument of the invocation the script is about to make
Argument == IF rpc = "pm" THEN row.pm ELSE loc.lead

\* find_jira_user is entered: lines 412, 444, 506, 608 / 253, 276
Invoke ==
    /\ rpc \in {"pm", "lead", "lead2"}
    /\ Call(Argument)
    /\ ResolverFrame
    /\ UNCHANGED snapshot

\* lines 412-440 / 253-273: the mention, the description and the fields
ReturnPM ==
    /\ rpc = "pm"
    /\ Return
    /\ loc' = [loc EXCEPT
                 !.project_manager_account_id = result,
                 !.lead = NotNa(row.lead),
                 !.fields = [summary |-> ProjectName,
                             description |-> Mention(result, row.pm),
                             assignee |-> Absent,
                             issuetype |-> IF script = "qbv" THEN QbvTypeId ELSE Absent]]
    /\ rpc' = IF Truthy(NotNa(row.lead)) THEN "lead" ELSE AfterLead
    /\ LoopFrame
    /\ UNCHANGED <<row_idx, row, failed_tasks, failed_users, skipped_issues,
                   created_issues, updated_issues, issues, snapshot>>

\* variant: a lead that is not found ends the run
AssignOrAbort(next) ==
    /\ Return
    /\ loc' = [loc EXCEPT !.user_account_id = result,
                          !.lead_lookups = @ + 1,
                          !.fields.assignee = IF Truthy(result) THEN result ELSE @]
    /\ rpc' = IF Truthy(result) THEN next ELSE "aborted"
    /\ LoopFrame
    /\ UNCHANGED <<row_idx, row, failed_tasks, failed_users, skipped_issues,
                   created_issues, updated_issues, issues, snapshot>>

\* if user_account_id: fields['assignee'] = ... else: failed_users.append(...)
Assign(next) ==
    /\ Return
    /\ IF Truthy(result)
       THEN /\ loc' = [loc EXCEPT !.user_account_id = result,
                                  !.lead_lookups = @ + 1,
                                  !.fields.assignee = result]
            /\ UNCHANGED failed_users
       ELSE /\ loc' = [loc EXCEPT !.user_account_id = result,
                                  !.lead_lookups = @ + 1]
            /\ failed_users' = Append(failed_users, ListEntry(row_idx, "lead"))
    /\ rpc' = next
    /\ LoopFrame
    /\ UNCHANGED <<row_idx, row, failed_tasks, skipped_issues, created_issues,
                   updated_issues, issues, snapshot>>

\* lines 443-449 / 275-281
ReturnLead == rpc = "lead" /\ Assign(AfterLead)

\* lines 505-511 and 607-613
ReturnLead2 == rpc = "lead2" /\ Assign("submit")

\* variant: a row passed over leaves no entry
EndsSkipUnrecorded(outcome, searched, request, answered) ==
    /\ rpc' = "loop"
    /\ loc' = [loc EXCEPT !.outcome = outcome, !.searched = searched,
                          !.request = request, !.answered = answered]
    /\ failed_tasks' = IF outcome = "failed"
                       THEN Append(failed_tasks, ListEntry(row_idx, "error")) ELSE failed_tasks
    /\ created_issues' = IF outcome = "created" /\ script = "v2"
                         THEN Append(created_issues, ListEntry(row_idx, "created")) ELSE created_issues
    /\ updated_issues' = IF outcome = "updated"
                         THEN Append(updated_issues, ListEntry(row_idx, "updated")) ELSE updated_issues
    /\ issues' = IF outcome \in {"created", "updated"}
                 THEN Append(issues, ListEntry(row_idx, outcome)) ELSE issues
    /\ LoopFrame
    /\ UNCHANGED <<row_idx, row, failed_users, skipped_issues>>
    /\ UNCHANGED <<resolverVars, snapshot>>

\* variant: a failed row ends the run
EndsOrAborts(outcome, searched, request, answered) ==
    /\ rpc' = IF outcome = "failed" THEN "aborted" ELSE "loop"
    /\ loc' = [loc EXCEPT !.outcome = outcome, !.searched = searched,
                          !.request = request, !.answered = answered]
    /\ skipped_issues' = IF outcome = "skipped"
                         THEN Append(skipped_issues, ListEntry(row_idx, "exists")) ELSE skipped_issues
    /\ created_issues' = IF outcome = "created" /\ script = "v2"
                         THEN Append(created_issues, ListEntry(row_idx, "created")) ELSE created_issues
    /\ updated_issues' = IF outcome = "updated"
                         THEN Append(updated_issues, ListEntry(row_idx, "updated")) ELSE updated_issues
    /\ issues' = IF outcome \in {"created", "updated"}
                 THEN Append(issues, ListEntry(row_idx, outcome)) ELSE issues
    /\ LoopFrame
    /\ UNCHANGED <<row_idx, row, failed_users, failed_tasks>>
    /\ UNCHANGED <<resolverVars, snapshot>>

\* the row ends, with an entry in one of the lists; searched and answered
\* keep what the issue API did to the search and to the request
Ends(outcome, searched, request, answered) ==
    /\ rpc' = "loop"
    /\ loc' = [loc EXCEPT !.outcome = outcome, !.searched = searched,
                          !.request = request, !.answered = answered]
    /\ failed_tasks' = IF outcome = "failed"
                       THEN Append(failed_tasks, ListEntry(row_idx, "error")) ELSE failed_tasks
    /\ skipped_issues' = IF outcome = "skipped"
                         THEN Append(skipped_issues, ListEntry(row_idx, "exists")) ELSE skipped_issues
    /\ created_issues' = IF outcome = "created" /\ script = "v2"
                         THEN Append(created_issues, ListEntry(row_idx, "created")) ELSE created_issues
    /\ updated_issues' = IF outcome = "updated"
                         THEN Append(updated_issues, ListEntry(row_idx, "updated")) ELSE updated_issues
    /\ issues' = IF outcome \in {"created", "updated"}
                 THEN Append(issues, ListEntry(row_idx, outcome)) ELSE issues
    /\ LoopFrame
    /\ UNCHANGED <<row_idx, row, failed_users>>
    /\ UNCHANGED <<resolverVars, snapshot>>

\* lines 647-654: a type that is none of the four, or that has no lower()
TryOther ==
    /\ rpc = "try"
    /\ pc = "idle"
    /\ \A t \in {EPIC, QBV, PROJECT, ONGOING} : ~IsType(NotNa(row.type), t)
    /\ Ends("failed", "unsent", NoRequest, "unsent")

\* the dict the branch submits: epic_fields, qbv_fields or story_fields
BranchFields ==
    IF IsType(row.type, EPIC) THEN [loc.fields EXCEPT !.issuetype = EpicType]
    ELSE [loc.fields EXCEPT !.assignee = Absent,
                            !.issuetype = IF IsType(row.type, QBV) THEN QbvTypeId
                                          ELSE StoryType]

\* variant: an issue that exists is not passed over
TrySearchNeverSkips(answer) ==
    /\ rpc = "try"
    /\ pc = "idle"
    /\ \E t \in {EPIC, QBV, ONGOING} : IsType(row.type, t)
    /\ IF answer = "raise"
       THEN Ends("failed", answer, NoRequest, "unsent")
       ELSE /\ loc' = [loc EXCEPT !.existing_issues = (answer = "found") /\ update,
                                  !.searched = answer,
                                  !.fields = BranchFields]
            /\ rpc' = IF ~IsType(row.type, EPIC) /\ Truthy(loc.lead)
                      THEN "lead2" ELSE "submit"
            /\ LoopFrame
            /\ UNCHANGED <<row_idx, row, failed_tasks, failed_users, skipped_issues,
                           created_issues, updated_issues, issues>>
            /\ UNCHANGED <<resolverVars, snapshot>>

\* lines 452-460, 482-503 and 580-604: the search for an existing issue
TrySearch(answer) ==
    /\ rpc = "try"
    /\ pc = "idle"
    /\ \E t \in {EPIC, QBV, ONGOING} : IsType(row.type, t)
    /\ CASE answer = "raise" -> Ends("failed", answer, NoRequest, "unsent")
         [] answer = "found" /\ ~update -> Ends("skipped", answer, NoRequest, "unsent")
         [] OTHER ->
              /\ loc' = [loc EXCEPT !.existing_issues = (answer = "found"),
                                    !.searched = answer,
                                    !.fields = BranchFields]
              /\ rpc' = IF ~IsType(row.type, EPIC) /\ Truthy(loc.lead)
                        THEN "lead2" ELSE "submit"
              /\ LoopFrame
              /\ UNCHANGED <<row_idx, row, failed_tasks, failed_users, skipped_issues,
                             created_issues, updated_issues, issues>>
              /\ UNCHANGED <<resolverVars, snapshot>>

\* update_issue_fields, lines 380-398: True when both requests succeed
update_issue_fields(answer) == answer = "ok"

\* variant: the issue is created whatever the search found
SubmitCreates(answer) ==
    /\ rpc = "submit"
    /\ pc = "idle"
    /\ answer # "missing"
    /\ Ends(IF answer = "ok" THEN "created" ELSE "failed",
            loc.searched, [op |-> "create", fields |-> loc.fields], answer)

\* lines 462-479, 513-525 and 615-638 / 283-290: the update or the creation
Submit(answer) ==
    /\ rpc = "submit"
    /\ pc = "idle"
    /\ IF script = "v2" /\ loc.existing_issues /\ update
       THEN Ends(IF update_issue_fields(answer) THEN "updated" ELSE "failed",
                 loc.searched, [op |-> "update", fields |-> loc.fields], answer)
       ELSE /\ answer # "missing"
            /\ Ends(IF answer = "ok" THEN "created" ELSE "failed",
                    loc.searched, [op |-> "create", fields |-> loc.fields], answer)

FieldNames == {"summary", "description", "assignee", "issuetype"}

\* variant: every field of epic_fields is sent
FieldsToUpdateAll(fields, populated) == fields

\* lines 541-550: the fields of epic_fields the issue holds no data for
FieldsToUpdate(fields, populated) ==
    [k \in FieldNames |-> IF k \in populated THEN Absent ELSE fields[k]]

\* lines 527-539 and 564-578: a row of type 'project' searches its issue;
\* populated are the fields the issue found holds data for
ProjectSearch(answer, populated) ==
    /\ rpc = "try"
    /\ pc = "idle"
    /\ IsType(row.type, PROJECT)
    /\ IF answer # "found"
       THEN populated = {} /\ Ends("failed", answer, NoRequest, "unsent")
       ELSE /\ loc' = [loc EXCEPT !.existing_issues = TRUE,
                                  !.current_fields = populated,
                                  !.searched = answer]
            /\ rpc' = "project"
            /\ LoopFrame
            /\ UNCHANGED <<row_idx, row, failed_tasks, failed_users, skipped_issues,
                           created_issues, updated_issues, issues>>
            /\ UNCHANGED <<resolverVars, snapshot>>

\* lines 540-563: the issue is updated with the fields it holds no data for
ProjectUpdate(updating) ==
    /\ rpc = "project"
    /\ pc = "idle"
    /\ IF FieldsToUpdate(loc.fields, loc.current_fields) = NoFields
       THEN updating = "ok" /\ Ends("skipped", loc.searched, NoRequest, "unsent")
       ELSE Ends(IF update_issue_fields(updating) THEN "updated" ELSE "failed",
                 loc.searched,
                 [op |-> "update",
                  fields |-> FieldsToUpdate(loc.fields, loc.current_fields)],
                 updating)

\* what the issue API answers to a search, and to an update or a creation
SearchAnswers == {"raise", "none", "found"}
SubmitAnswers == {"ok", "missing", "raise"}

\* the fields an existing issue may hold data for
Populated == {{}, {"summary", "description"}, {"summary", "description", "assignee"}}

RowsNext ==
    \/ \E r \in Rows : ReadRow(r)
    \/ Invoke
    \/ \E resp \in RowResponses : EmailLookup(resp) /\ ResolverFrame /\ UNCHANGED snapshot
    \/ \E resp \in RowResponses : Search(resp) /\ ResolverFrame /\ UNCHANGED snapshot
    \/ ReturnPM
    \/ ReturnLead
    \/ ReturnLead2
    \/ TryOther
    \/ \E answer \in SearchAnswers : TrySearch(answer)
    \/ \E answer \in SearchAnswers, populated \in Populated : ProjectSearch(answer, populated)
    \/ \E updating \in SubmitAnswers : ProjectUpdate(updating)
    \/ \E answer \in SubmitAnswers : Submit(answer)
    \/ Finish

SpecRows == RowsInit /\ [][RowsNext]_vars

(***************************************************************************)
(* The scripts from their first statement.  rpc is the start-up step about *)
(* to run, then the position in the loop, then "exited".  Every step       *)
(* depends on the environment, the server or the file system: it succeeds  *)
(* or fails.  exit(1) raises SystemExit, which the handlers of the         *)
(* scripts, all of them `except Exception`, let through; an exception no   *)
(* handler catches ends the process with status 1, a usage error of        *)
(* argparse with status 2.  A script that has logged its summary is at     *)
(* "end": no statement is left and the process ends by itself.             *)
(***************************************************************************)
\* the outcomes of parser.parse_args(): the namespace, a usage error, --help
ParseOutcomes == {"ok", "usage", "help"}

\* the outcomes of lines 317-355: the sheet is loaded; the file is missing
\* (exit(1) at line 322); read_excel, a column name that has no lower(),
\* df.iloc[0] of an empty sheet or process_labels raises (handler of 352)
LoadOutcomes == {"ok", "missing", "raise"}

\* the step that follows a start-up step of the script
StepAfter(step) ==
    LET steps == StartupSteps(script)
        i == CHOOSE k \in 1..Len(steps) : steps[k] = step
    IN  IF i = Len(steps) THEN "loop" ELSE steps[i + 1]

\* what a start-up step leaves alone: no list exists yet, no request to
\* create or update has been sent
StartFrame ==
    /\ UNCHANGED <<script, row_idx, row, loc, failed_tasks, failed_users,
                   skipped_issues, created_issues, updated_issues, issues, helper>>
    /\ UNCHANGED <<resolverVars, snapshot>>

\* the step succeeded: the script goes on with the next statement
Pass ==
    /\ passed' = Append(passed, rpc)
    /\ rpc' = StepAfter(rpc)
    /\ UNCHANGED exit_status

\* the process ends with this status
Exit(code) ==
    /\ exit_status' = [code |-> code, at |-> rpc]
    /\ rpc' = "exited"
    /\ UNCHANGED passed

\* a start-up step that binds nothing the loop reads succeeds, or the
\* script calls exit(1)
PassOrExit(ok) ==
    /\ IF ok THEN Pass ELSE Exit("1")
    /\ UNCHANGED <<DEFAULT_PROJECT_KEY, update>>
    /\ StartFrame

\* lines 36-47 / 35-46: JIRA_URL, JIRA_EMAIL and JIRA_API_TOKEN are set
CheckEnv(ok) ==
    /\ rpc = "env"
    /\ PassOrExit(ok)

\* line 67 / 62: JIRA(...) outside any try; an exception ends the process
Connect(ok) ==
    /\ rpc = "connect"
    /\ PassOrExit(ok)

\* lines 263-269: the arguments of excel2jira-v2.py; DEFAULT_PROJECT_KEY is
\* rebound from args.project, left at its default here: the key reaches the
\* text of the searches only, whose answers the loop takes as inputs
ParseArgs(outcome, u) ==
    /\ rpc = "args"
    /\ IF outcome = "ok"
       THEN Pass /\ DEFAULT_PROJECT_KEY' = "ITDVPS" /\ update' = u
       ELSE /\ u = FALSE
            /\ Exit(IF outcome = "usage" THEN "2" ELSE "0")
            /\ UNCHANGED <<DEFAULT_PROJECT_KEY, update>>
    /\ StartFrame

\* lines 271-279 / 182-189: jira.myself()
Authenticate(ok) ==
    /\ rpc = "auth"
    /\ PassOrExit(ok)

\* lines 282-289 / 192-198: jira.project(...)
AccessProject(ok) ==
    /\ rpc = "access"
    /\ PassOrExit(ok)

\* lines 292-314 / 201-212: get_allowed_value_id for every required field
LookupFields(ok) ==
    /\ rpc = "fields"
    /\ PassOrExit(ok)

\* lines 317-355 / 215-228: the spreadsheet is read
LoadSheet(outcome) ==
    /\ rpc = "load"
    /\ PassOrExit(outcome = "ok")

\* variant: missing columns are reported and the loop is entered
ValidateColumnsLenient(ok) ==
    /\ rpc = "columns"
    /\ IF ok THEN Pass ELSE rpc' = "loop" /\ UNCHANGED <<passed, exit_status>>
    /\ UNCHANGED <<DEFAULT_PROJECT_KEY, update>>
    /\ StartFrame

\* lines 358-363 / 231-236: every expected column is in the sheet; the lists
\* of lines 365-370 / 239-241 are empty when the loop is entered
ValidateColumns(ok) ==
    /\ rpc = "columns"
    /\ PassOrExit(ok)

\* what the end of the script leaves alone
EndFrame ==
    /\ UNCHANGED <<DEFAULT_PROJECT_KEY, script, update, row_idx, row, loc,
                   failed_tasks, failed_users, skipped_issues, created_issues,
                   updated_issues, issues, helper>>
    /\ UNCHANGED <<resolverVars, snapshot>>

\* lines 686-688 / 310-312: the handler of the outer try logs and exits
Crash ==
    /\ rpc = "aborted"
    /\ Exit("1")
    /\ EndFrame

ScriptInit ==
    /\ ResolverInit
    /\ snapshot = NoSnapshot
    /\ DEFAULT_PROJECT_KEY = "ITDVPS"
    /\ script \in {"v2", "qbv"}
    /\ update = FALSE
    /\ rpc = "env"
    /\ row_idx = 0
    /\ row = NoRow
    /\ loc = NoLoc
    /\ failed_tasks = <<>>
    /\ failed_users = <<>>
    /\ skipped_issues = <<>>
    /\ created_issues = <<>>
    /\ updated_issues = <<>>
    /\ issues = <<>>
    /\ passed = <<>>
    /\ exit_status = NotExited
    /\ helper = NoHelper

ScriptNext ==
    \/ \E ok \in BOOLEAN : CheckEnv(ok)
    \/ \E ok \in BOOLEAN : Connect(ok)
    \/ \E outcome \in ParseOutcomes, u \in BOOLEAN : ParseArgs(outcome, u)
    \/ \E ok \in BOOLEAN : Authenticate(ok)
    \/ \E ok \in BOOLEAN : AccessProject(ok)
    \/ \E ok \in BOOLEAN : LookupFields(ok)
    \/ \E outcome \in LoadOutcomes : LoadSheet(outcome)
    \/ \E ok \in BOOLEAN : ValidateColumns(ok)
    \/ RowsNext
    \/ Crash

SpecScript == ScriptInit /\ [][ScriptNext]_vars

(***************************************************************************)
(* The helpers of excel2jira-v2.py that compute without the server: the    *)
(* quarter of lines 296-301, process_labels with the defaulting of line    *)
(* 343, and clean_dod_field.  helper holds the helper applied, its         *)
(* argument, its result (out) and the result of the statement that follows *)
(* (follow): the defaulting for process_labels, a second application for   *)
(* clean_dod_field.                                                        *)
(***************************************************************************)
\* a Python list
List(l) == [t |-> "list", v |-> l]

\* pd.isna(x) for a cell
IsNa(x) == x = NaN \/ x = None

\* the characters str.split(), str.strip() and \s take for whitespace
Whitespace == {" ", "\n", "\r", "\t"}

\* the characters of \w
IsWord(c) ==
    \/ \E i \in 1..Len(UpperChars) : UpperChars[i] = c
    \/ \E i \in 1..Len(LowerChars) : LowerChars[i] = c
    \/ c \in {"0", "1", "2", "3", "4", "5", "6", "7", "8", "9", "_"}

\* the characters the pattern [^\w\s.,;:()\-] of line 250 does not match
Kept(c) == IsWord(c) \/ c \in Whitespace \/ c \in {".", ",", ";", ":", "(", ")", "-"}

RECURSIVE LStrip(_)
LStrip(s) == IF s # <<>> /\ Head(s) \in Whitespace THEN LStrip(Tail(s)) ELSE s

RECURSIVE RStrip(_)
RStrip(s) ==
    IF s # <<>> /\ s[Len(s)] \in Whitespace THEN RStrip(SubSeq(s, 1, Len(s) - 1)) ELSE s

\* s.strip()
Strip(s) == RStrip(LStrip(s))

RECURSIVE SplitAt(_, _, _, _)
\* the pieces of s from position i on, cur being the piece begun; a piece
\* ends at every character of seps
SplitAt(s, seps, i, cur) ==
    IF i > Len(s) THEN <<cur>>
    ELSE IF s[i] \in seps THEN <<cur>> \o SplitAt(s, seps, i + 1, <<>>)
    ELSE SplitAt(s, seps, i + 1, Append(cur, s[i]))

\* s.split(','): one piece more than there are commas
SplitComma(s) == SplitAt(s, {","}, 1, <<>>)

\* the k-th smallest element of a set of numbers
Nth(set, k) == CHOOSE i \in set : Cardinality({j \in set : j < i}) = k - 1

\* s.split(): the runs of characters that are not whitespace, each from the
\* position it starts at to the position it ends at
SplitWhitespace(s) ==
    LET starts == {i \in 1..Len(s) : s[i] \notin Whitespace /\ (i = 1 \/ s[i - 1] \in Whitespace)}
        ends == {i \in 1..Len(s) : s[i] \notin Whitespace /\ (i = Len(s) \/ s[i + 1] \in Whitespace)}
    IN  [k \in 1..Cardinality(starts) |-> SubSeq(s, Nth(starts, k), Nth(ends, k))]

\* s.replace(old, new) for one-character old and new
ReplaceChar(s, old, new) == [i \in 1..Len(s) |-> IF s[i] = old THEN new ELSE s[i]]

RECURSIVE Join(_, _)
\* sep.join(parts)
Join(sep, parts) ==
    IF parts = <<>> THEN <<>>
    ELSE IF Len(parts) = 1 THEN parts[1]
    ELSE parts[1] \o sep \o Join(sep, Tail(parts))

\* f'{n}' for a digit n
Digit(n) == <<"0", "1", "2", "3", "4", "5", "6", "7", "8", "9">>[n + 1]

\* variant: the quarter the month lies in
this_quarter(month) == (month - 1) \div 3 + 1

\* line 300: the quarter that follows the one the month lies in
next_quarter(month) == (((month - 1) \div 3 + 1) % 4) + 1

\* lines 296-301: args.quarter when given, else f'Q{current_quarter}'
quarter_value(month, quarter) ==
    IF Truthy(quarter) THEN quarter ELSE Str(<<"Q", Digit(next_quarter(month))>>)

RECURSIVE UniqueLabels(_, _, _)
\* lines 227-233: the loop over labels, seen being the set of line 228
UniqueLabels(labels, i, seen) ==
    IF i > Len(labels) THEN <<>>
    ELSE IF Lower(labels[i]) \notin seen
    THEN <<Str(labels[i])>> \o UniqueLabels(labels, i + 1, seen \cup {Lower(labels[i])})
    ELSE UniqueLabels(labels, i + 1, seen)

RECURSIVE UniqueLabelsExact(_, _, _)
\* variant: the labels are compared as they are written
UniqueLabelsExact(labels, i, seen) ==
    IF i > Len(labels) THEN <<>>
    ELSE IF labels[i] \notin seen
    THEN <<Str(labels[i])>> \o UniqueLabelsExact(labels, i + 1, seen \cup {labels[i]})
    ELSE UniqueLabelsExact(labels, i + 1, seen)

\* lines 223-225: the pieces between the commas, stripped, the empty ones dropped
LabelPieces(cell) ==
    LET pieces == SplitComma(Format(cell))
    IN  SelectSeq([i \in 1..Len(pieces) |-> Strip(pieces[i])], LAMBDA label : label # <<>>)

\* variant of process_labels
process_labels_exact(label_str) ==
    IF IsNa(label_str) THEN List(<<>>)
    ELSE List(UniqueLabelsExact(LabelPieces(label_str), 1, {}))

\* lines 218-234
process_labels(label_str) ==
    IF IsNa(label_str) THEN List(<<>>)
    ELSE List(UniqueLabels(LabelPieces(label_str), 1, {}))

\* line 343: lambda x: ['excel2jira'] if not x else x
default_labels(x) ==
    IF x.v = <<>> THEN List(<<Str(<<"e","x","c","e","l","2","j","i","r","a">>)>>) ELSE x

\* the literals 255 and 252 of lines 253-254
MaxDodLength == 255
KeptDodLength == 252

\* lines 242-250: the newlines replaced, the whitespace collapsed, the
\* characters the pattern matches removed, in this order
Sanitized(dod_content) ==
    LET dod_str == ReplaceChar(ReplaceChar(Format(dod_content), "\n", " "), "\r", " ")
    IN  SelectSeq(Join(<<" ">>, SplitWhitespace(dod_str)), Kept)

\* lines 236-257
clean_dod_field(dod_content) ==
    IF IsNa(dod_content) THEN Str(<<>>)
    ELSE LET dod_str == Sanitized(dod_content)
         IN  Str(IF Len(dod_str) > MaxDodLength
                 THEN SubSeq(dod_str, 1, KeptDodLength) \o <<".", ".", ".">>
                 ELSE dod_str)

\* the strings of at most n characters of chars
Strings(chars, n) == UNION {[1..k -> chars] : k \in 0..n}

\* the months of datetime.today() and the values of args.quarter
QuarterInputs ==
    {[t |-> "args", v |-> [month |-> m, quarter |-> q]] :
        m \in 1..12,
        q \in {None} \cup {Str(<<"Q", d>>) : d \in {"1", "2", "3", "4"}}}

\* the 'labels' cells: empty, or a short text of two letters that differ by
\* case, a third letter, commas and spaces
MaxLabelCell == 4
LabelChars == {"a", "A", "b", ",", " "}
LabelInputs == {NaN} \cup {Str(s) : s \in Strings(LabelChars, MaxLabelCell)}

\* the 'q2 dod' cells: empty, a short text of a letter, whitespace and a
\* character the pattern matches, or such a text followed by letters enough
\* to reach the limit of line 253 with two characters kept
MaxDodCell == 4
DodChars == {"a", " ", "\n", "\r", "#"}
Filler == [i \in 1..(MaxDodLength - 1) |-> "a"]
DodInputs ==
    {NaN} \cup {Str(s) : s \in Strings(DodChars, MaxDodCell)}
          \cup {Str(s \o Filler) : s \in Strings(DodChars, MaxDodCell)}

\* a helper leaves the scripts' state alone
HelperFrame ==
    /\ UNCHANGED <<DEFAULT_PROJECT_KEY, script, update, rpc, row_idx, row, loc,
                   failed_tasks, failed_users, skipped_issues, created_issues,
                   updated_issues, issues, passed, exit_status>>
    /\ UNCHANGED <<resolverVars, snapshot>>

\* lines 296-301
Quarter ==
    /\ helper.fn = "quarter"
    /\ helper.out = Absent
    /\ helper' = [helper EXCEPT !.out = quarter_value(helper.arg.v.month, helper.arg.v.quarter)]
    /\ HelperFrame

\* line 341
ProcessLabels ==
    /\ helper.fn = "process_labels"
    /\ helper.out = Absent
    /\ helper' = [helper EXCEPT !.out = process_labels(helper.arg)]
    /\ HelperFrame

\* line 343
DefaultLabels ==
    /\ helper.fn = "process_labels"
    /\ helper.out # Absent
    /\ helper.follow = Absent
    /\ helper' = [helper EXCEPT !.follow = default_labels(helper.out)]
    /\ HelperFrame

\* line 419
CleanDod ==
    /\ helper.fn = "clean_dod_field"
    /\ helper.out = Absent
    /\ helper' = [helper EXCEPT !.out = clean_dod_field(helper.arg)]
    /\ HelperFrame

\* the helper applied to its own result
CleanDodAgain ==
    /\ helper.fn = "clean_dod_field"
    /\ helper.out # Absent
    /\ helper.follow = Absent
    /\ helper' = [helper EXCEPT !.follow = clean_dod_field(helper.out)]
    /\ HelperFrame

HelpersInit ==
    /\ ResolverInit
    /\ snapshot = NoSnapshot
    /\ DEFAULT_PROJECT_KEY = "ITDVPS"
    /\ script = "v2"
    /\ update = FALSE
    /\ rpc = "none"
    /\ row_idx = 0
    /\ row = NoRow
    /\ loc = NoLoc
    /\ failed_tasks = <<>>
    /\ failed_users = <<>>
    /\ skipped_issues = <<>>
    /\ created_issues = <<>>
    /\ updated_issues = <<>>
    /\ issues = <<>>
    /\ passed = <<>>
    /\ exit_status = NotExited
    /\ \E fn \in {"quarter", "process_labels", "clean_dod_field"} :
         \E arg \in CASE fn = "quarter" -> QuarterInputs
                      [] fn = "process_labels" -> LabelInputs
                      [] OTHER -> DodInputs :
            helper = [fn |-> fn, arg |-> arg, out |-> Absent, follow |-> Absent]

HelpersNext ==
    \/ Quarter
    \/ ProcessLabels
    \/ DefaultLabels
    \/ CleanDod
    \/ CleanDodAgain

SpecHelpers == HelpersInit /\ [][HelpersNext]_vars

(***************************************************************************)
(* Vocabulary of the properties, stated on the calls and their answers.    *)
(***************************************************************************)
Fields == {"name", "displayName", "emailAddress"}

\* the text of a field of an entry; a missing field reads as the empty string
FieldText(u, k) == IF u[k] = Absent THEN <<>> ELSE u[k].v

\* the three similarity scores of an entry
FieldScores(q, u) == {similar(q, FieldText(u, k)) : k \in Fields}

\* the entry's largest score is above 0.6
Above(q, u) == \E s \in FieldScores(q, u) : 10 * s.n > 6 * s.d

\* the entry u scores at least as high as the entry w
AtLeast(q, u, w) ==
    \A t \in FieldScores(q, w) : \E s \in FieldScores(q, u) : s.n * t.d >= t.n * s.d

\* an answer that is a list of directory entries whose fields are strings
WellFormed(resp) ==
    /\ resp.kind = "array"
    /\ \A i \in 1..Len(resp.body) :
          resp.body[i].dict /\ \A k \in Fields : resp.body[i][k].t \in {"str", "absent"}

\* an answer of an email-pattern lookup that has a first entry
IsHit(resp) == resp.kind = "array" /\ Len(resp.body) > 0 /\ resp.body[1].dict

EmailCallIdx == {i \in 1..Len(calls) : calls[i].step = "email"}
SearchCallIdx == {i \in 1..Len(calls) : calls[i].step = "search"}
EmailHit == \E i \in EmailCallIdx : IsHit(calls[i].response)
SearchIssued == SearchCallIdx # {}

\* the positions of the answer of the broader search that survive the filter
Survivors ==
    {i \in 1..Len(users.body) : Above(search_value.v, users.body[i])}

\* the account identifier of an entry, None when it has none
AccountOf(u) == IF u.accountId = Absent THEN None ELSE u.accountId

Done == pc = "done"
StrQuery == search_value.t = "str"
HasAt == \E i \in 1..Len(search_value.v) : search_value.v[i] = "@"

(***************************************************************************)
(* C1.  As claimed: a query that equals the emailAddress of a directory    *)
(* entry is answered with that entry's accountId by an email-pattern       *)
(* lookup, and the broader search is not issued.  The directory service is *)
(* taken at its best: it answers every call with exactly that entry.       *)
(***************************************************************************)
C1_Original ==
    \A e \in Entries :
        ( /\ Done
          /\ StrQuery
          /\ e.emailAddress = search_value
          /\ \A i \in 1..Len(calls) :
                calls[i].response.kind = "array" /\ calls[i].response.body = <<e>> )
            => /\ EmailHit
               /\ ~SearchIssued
               /\ result = AccountOf(e)

(***************************************************************************)
(* C1, amended.  A query that contains '@' (as one equal to an entry's     *)
(* emailAddress does) skips the email patterns: the broader search is the  *)
(* only directory call, and when its answer is a well-formed list that     *)
(* holds an entry with that emailAddress, the accountId returned is that   *)
(* of the first listed entry scoring 1.0.                                  *)
(***************************************************************************)
C1_EmailQuerySearchOnly ==
    (StrQuery /\ HasAt)
        => /\ EmailCallIdx = {}
           /\ Len(calls) <= 1
           /\ Done => Len(calls) = 1
           /\ (Done /\ WellFormed(users)
                 /\ \E i \in 1..Len(users.body) : users.body[i].emailAddress = search_value)
                => LET exact == {i \in 1..Len(users.body) :
                                   \E s \in FieldScores(search_value.v, users.body[i]) : s.n = s.d}
                       first == CHOOSE i \in exact : \A j \in exact : i <= j
                   IN  /\ best_match = users.body[first]
                       /\ result = AccountOf(users.body[first])

C1_Witness ==
    /\ Done
    /\ search_value = Str(<<"j","@","x">>)
    /\ users.kind = "array" /\ users.body = <<E2, E1>>
    /\ result = Str(<<"1">>)

(***************************************************************************)
(* C2.  For a query without '@' the email lookups are, in this order, the  *)
(* query unmodified, lower-cased, without spaces, and with dots for spaces *)
(* and lower-cased, each followed by @final.co.il and asked with           *)
(* maxResults 1; the first lookup that answers with an entry ends the      *)
(* invocation with that entry's accountId, and no call follows it.         *)
(***************************************************************************)
C2_EmailCandidatesInOrder ==
    (StrQuery /\ ~HasAt)
        => LET q == search_value.v
               domain == <<"@","f","i","n","a","l",".","c","o",".","i","l">>
               noSpaces == SelectSeq(q, LAMBDA c : c # " ")
               dotted == [i \in 1..Len(q) |-> IF q[i] = " " THEN "." ELSE q[i]]
               expected == << q \o domain, Lower(q) \o domain,
                              noSpaces \o domain, Lower(dotted) \o domain >>
           IN  /\ Cardinality(EmailCallIdx) <= 4
               /\ \A i \in EmailCallIdx :
                     /\ \A j \in 1..i : j \in EmailCallIdx
                     /\ calls[i].query = expected[i]
                     /\ calls[i].maxResults = 1
                     /\ IsHit(calls[i].response)
                          => /\ i = Len(calls)
                             /\ Done
                             /\ result = AccountOf(calls[i].response.body[1])
                     /\ i < Len(calls) => ~IsHit(calls[i].response)
               /\ pc = "email" => Len(calls) = idx - 1

C2_Witness ==
    /\ Done
    /\ search_value = Str(<<"J"," ","D">>)
    /\ Len(calls) = 3
    /\ calls[3].query = <<"J","D","@","f","i","n","a","l",".","c","o",".","i","l">>
    /\ calls[3].response.kind = "array" /\ calls[3].response.body = <<E3>>
    /\ result = Str(<<"3">>)

(***************************************************************************)
(* C3.  As claimed: whenever an invocation has ended, the broader search   *)
(* was issued exactly if no email-pattern lookup had a hit, and at most    *)
(* once.                                                                   *)
(***************************************************************************)
C3_Original ==
    Done => /\ (SearchIssued <=> ~EmailHit)
            /\ Cardinality(SearchCallIdx) <= 1

(***************************************************************************)
(* C3, amended.  For a query that is a string, the broader search (the     *)
(* query unmodified, maxResults 50) is issued exactly if no email-pattern  *)
(* lookup had a hit, at most once, and never after a hit.                  *)
(***************************************************************************)
C3_SearchIffNoEmailHit ==
    /\ Cardinality(SearchCallIdx) <= 1
    /\ \A i \in SearchCallIdx :
          /\ i = Len(calls)
          /\ calls[i].query = search_value.v
          /\ calls[i].maxResults = 50
          /\ ~EmailHit
    /\ pc = "search" => ~EmailHit /\ ~SearchIssued
    /\ (Done /\ StrQuery) => (SearchIssued <=> ~EmailHit)

C3_Witness ==
    /\ Done
    /\ search_value = Str(<<"J"," ","D">>)
    /\ Len(calls) = 5
    /\ \A i \in 1..4 : calls[i].step = "email" /\ calls[i].response.kind \in {"array", "null"}
    /\ calls[5].step = "search"

(***************************************************************************)
(* C4.  The threshold is exclusive: after the broader search the entry     *)
(* returned never scores 0.6 or less, and of a well-formed answer exactly  *)
(* the candidates scoring above 0.6 are kept.                              *)
(***************************************************************************)
C4_ThresholdExclusive ==
    (Done /\ SearchIssued)
        => /\ best_match # None => Above(search_value.v, best_match)
           /\ result # None => best_match # None /\ result = AccountOf(best_match)
           /\ \A j \in 1..Len(filtered_users) :
                 Above(search_value.v, filtered_users[j].user)
           /\ WellFormed(users)
                => \A i \in 1..Len(users.body) :
                      Above(search_value.v, users.body[i])
                        <=> \E j \in 1..Len(filtered_users) :
                               filtered_users[j].user = users.body[i]

C4_Witness ==
    /\ Done
    /\ search_value = Str(<<"J"," ","D">>)
    /\ users.kind = "array" /\ users.body = <<E4, E3>>
    /\ similar(search_value.v, E4.displayName.v) = [n |-> 6, d |-> 10]
    /\ Len(filtered_users) = 1
    /\ result = Str(<<"3">>)

(***************************************************************************)
(* C5.  As claimed: a query that scores 0.6 or less against every field of *)
(* every directory entry is answered with None, whatever the directory     *)
(* service answers.                                                        *)
(***************************************************************************)
LowAgainstAll ==
    /\ StrQuery
    /\ \A e \in Entries : (\A k \in Fields : e[k].t \in {"str", "absent"})
                             => ~Above(search_value.v, e)

C5_Original == (Done /\ LowAgainstAll) => result = None

(***************************************************************************)
(* C5, amended.  Such a query is answered with None unless one of the      *)
(* email-pattern lookups answers with an entry; that entry's accountId is  *)
(* returned without any similarity check.                                  *)
(***************************************************************************)
C5_NoMatchUnlessEmailHit ==
    (Done /\ LowAgainstAll)
        => /\ ~EmailHit => result = None /\ best_match = None /\ filtered_users = <<>>
           /\ EmailHit => result = AccountOf(calls[Len(calls)].response.body[1])

C5_Witness ==
    /\ Done
    /\ search_value = Str(<<"z","q">>)
    /\ SearchIssued
    /\ users.kind = "array" /\ users.body = <<E2, E1>>
    /\ result = None

(***************************************************************************)
(* C6.  When the broader search yields the result, the entry returned is a *)
(* survivor of the filter that scores at least as high as every other      *)
(* survivor, in whichever order the service listed them.                   *)
(***************************************************************************)
C6_BestScoreReturned ==
    (Done /\ best_match # None)
        => /\ \E i \in Survivors : users.body[i] = best_match
           /\ \A i \in Survivors : AtLeast(search_value.v, best_match, users.body[i])
           /\ result = AccountOf(best_match)

C6_Witness ==
    /\ Done
    /\ search_value = Str(<<"J"," ","D">>)
    /\ users.kind = "array" /\ users.body = <<E3, E1>>
    /\ similar(search_value.v, E3.displayName.v) = [n |-> 6, d |-> 7]
    /\ best_match = E1
    /\ result = Str(<<"1">>)

(***************************************************************************)
(* C7.  When several survivors share the highest score, the entry returned *)
(* is the one the directory service listed first.                          *)
(***************************************************************************)
C7_TieFirstListed ==
    (Done /\ best_match # None)
        => LET top == {i \in Survivors :
                          \A j \in Survivors :
                             AtLeast(search_value.v, users.body[i], users.body[j])}
               first == CHOOSE i \in top : \A j \in top : i <= j
           IN  /\ top # {}
               /\ best_match = users.body[first]
               /\ result = AccountOf(users.body[first])

C7_Witness ==
    /\ Done
    /\ search_value = Str(<<"J"," ","D">>)
    /\ users.kind = "array" /\ users.body = <<E2, E1>>
    /\ AtLeast(search_value.v, E1, E2) /\ AtLeast(search_value.v, E2, E1)
    /\ result = Str(<<"2">>)

(***************************************************************************)
(* C8.  The score of a candidate is the largest of the case-insensitive    *)
(* similarities of the query to its username, displayName and emailAddress,*)
(* a missing field counting as the empty string; a candidate whose         *)
(* username alone scores above 0.6 survives the filter.                    *)
(***************************************************************************)
C8_ScoreIsMaxOfThreeFields ==
    (Done /\ SearchIssued)
        => /\ \A j \in 1..Len(filtered_users) :
                 LET u == filtered_users[j].user
                     sc == filtered_users[j].score
                 IN  /\ sc \in FieldScores(search_value.v, u)
                     /\ \A t \in FieldScores(search_value.v, u) : sc.n * t.d >= t.n * sc.d
           /\ WellFormed(users)
                => \A i \in 1..Len(users.body) :
                      LET s == Ratio(Lower(search_value.v),
                                     Lower(FieldText(users.body[i], "name")))
                      IN  10 * s.n > 6 * s.d
                            => \E j \in 1..Len(filtered_users) :
                                  filtered_users[j].user = users.body[i]

C8_Witness ==
    /\ Done
    /\ search_value = Str(<<"J"," ","D">>)
    /\ users.kind = "array" /\ users.body = <<E2>>
    /\ E2.emailAddress = Absent
    /\ similar(search_value.v, E2.displayName.v) = [n |-> 0, d |-> 5]
    /\ filtered_users = <<[user |-> E2, score |-> [n |-> 6, d |-> 6]]>>
    /\ result = Str(<<"2">>)

(***************************************************************************)
(* C9.  No exception leaves find_jira_user: whatever the argument (a       *)
(* string or not) and whatever the directory calls do, the invocation ends *)
(* with an accountId or None.                                              *)
(***************************************************************************)
C9_NeverRaises ==
    /\ ~raised
    /\ pc \in {"idle", "email", "search", "done"}
    /\ Done => \/ result = None
               \/ \E e \in Entries : e.dict /\ e.accountId.t = "str" /\ result = e.accountId
    /\ ~Done => result = None

C9_Witness ==
    /\ Done
    /\ search_value = NaN
    /\ calls = <<>>
    /\ result = None
    /\ ~raised

(***************************************************************************)
(* C10.  When a directory call raises during the email patterns, the       *)
(* broader search is still issued in the same invocation, and when its     *)
(* answer holds a candidate scoring above 0.6 the accountId of the best    *)
(* such candidate is returned.                                             *)
(***************************************************************************)
EmailRaised == \E i \in EmailCallIdx : calls[i].response.kind = "raise"

C10_SearchAfterEmailFailure ==
    EmailRaised
        => /\ pc \in {"search", "done"}
           /\ ~EmailHit
           /\ Done => /\ SearchIssued
                      /\ (WellFormed(users) /\ Survivors # {})
                            => /\ \E i \in Survivors : users.body[i] = best_match
                               /\ result = AccountOf(best_match)

C10_Witness ==
    /\ Done
    /\ search_value = Str(<<"J"," ","D">>)
    /\ Len(calls) = 3
    /\ calls[2].step = "email" /\ calls[2].response.kind = "raise"
    /\ calls[3].step = "search"
    /\ users.kind = "array" /\ users.body = <<E3>>
    /\ result = Str(<<"3">>)

(***************************************************************************)
(* C13.  When no email-pattern lookup has a hit and the broader search     *)
(* answers with a list of entries one of which has the query as its        *)
(* displayName, with no entry listed before it that also scores 1.0, that  *)
(* entry's accountId is returned.                                          *)
(***************************************************************************)
C13_ExactDisplayNameReturned ==
    (Done /\ StrQuery /\ ~EmailHit /\ WellFormed(users))
        => \A i \in 1..Len(users.body) :
              ( /\ users.body[i].displayName = search_value
                /\ \A j \in 1..(i - 1) :
                      \A s \in FieldScores(search_value.v, users.body[j]) : s.n # s.d )
                => /\ best_match = users.body[i]
                   /\ result = AccountOf(users.body[i])

C13_Witness ==
    /\ Done
    /\ search_value = Str(<<"J"," ","D">>)
    /\ Len(calls) = 5
    /\ users.kind = "array" /\ users.body = <<E3, E1>>
    /\ E1.displayName = search_value
    /\ result = Str(<<"1">>)

(***************************************************************************)
(* C18.  No directory call is retried: in one invocation the candidate i   *)
(* is looked up at most once, as the call i, and the broader search at     *)
(* most once; there are at most 5 calls for a query without '@' and        *)
(* exactly 1 for a query with '@'.                                         *)
(***************************************************************************)
C18_NoRetry ==
    /\ Cardinality(SearchCallIdx) <= 1
    /\ Cardinality(EmailCallIdx) <= 4
    /\ \A i \in EmailCallIdx : i <= 4 /\ calls[i].query = email_patterns(search_value.v)[i]
    /\ \A i \in SearchCallIdx : i = Len(calls)
    /\ Len(calls) <= 5
    /\ (StrQuery /\ HasAt) => Len(calls) <= 1 /\ (Done => Len(calls) = 1)

C18_Witness ==
    /\ Done
    /\ search_value = Str(<<"J"," ","D">>)
    /\ Len(calls) = 5
    /\ calls[4].response.kind = "null"
    /\ calls[5].response.kind = "raise"

(***************************************************************************)
(* C19.  As claimed: a failure of the lookup of one email candidate counts *)
(* as no match for that candidate only, and the remaining candidates are   *)
(* looked up before the broader search.                                    *)
(***************************************************************************)
EmailFailedIdx == {i \in EmailCallIdx : ~IsHit(calls[i].response)
                                         /\ calls[i].response.kind \in {"raise", "object", "array"}
                                         /\ (calls[i].response.kind = "array"
                                               => calls[i].response.body # <<>>)}

C19_Original ==
    (StrQuery /\ ~HasAt /\ ~EmailHit /\ (pc = "search" \/ SearchIssued))
        => Cardinality(EmailCallIdx) = 4

(***************************************************************************)
(* C19, amended.  A failure of the lookup of one email candidate ends the  *)
(* email-pattern step: no further candidate is looked up and the next      *)
(* call is the broader search.                                             *)
(***************************************************************************)
C19_FailureEndsEmailStep ==
    \A i \in EmailFailedIdx :
        /\ \A j \in EmailCallIdx : j <= i
        /\ pc \in {"search", "done"}
        /\ Done => Len(calls) = i + 1 /\ calls[i + 1].step = "search"

C19_Witness ==
    /\ Done
    /\ search_value = Str(<<"J"," ","D">>)
    /\ Len(calls) = 2
    /\ calls[1].step = "email" /\ calls[1].response.kind = "raise"
    /\ calls[2].step = "search"

(***************************************************************************)
(* C20.  None is returned only if every directory call of the invocation   *)
(* answered with no entries or failed, or the broader search answered with *)
(* candidates scoring 0.6 or less only.                                    *)
(***************************************************************************)
NoEntries(resp) ==
    \/ resp.kind \in {"raise", "null", "object"}
    \/ resp.kind = "array" /\ resp.body = <<>>
    \/ resp.kind = "array" /\ \E i \in 1..Len(resp.body) : ~resp.body[i].dict
    \/ resp.kind = "array" /\ \E i \in 1..Len(resp.body) :
                                 \E k \in Fields : resp.body[i][k].t \notin {"str", "absent"}

C20_NoneOnlyWithoutMatch ==
    (Done /\ StrQuery /\ result = None)
        => \A i \in 1..Len(calls) :
              \/ NoEntries(calls[i].response)
              \/ /\ calls[i].step = "search"
                 /\ \A j \in 1..Len(calls[i].response.body) :
                       ~Above(search_value.v, calls[i].response.body[j])

\* C11: against a directory in an unchanged state, every later invocation
\* with the same argument returns what the first invocation returned.
C11_Idempotent ==
    (Done /\ search_value = snapshot.tracked /\ snapshot.first # Absent)
        => result = snapshot.first

\* a second invocation of 'J D' ended after four misses and a search that
\* matched, as the first one did
C11_Witness ==
    /\ Done
    /\ search_value = Str(<<"J"," ","D">>)
    /\ search_value = snapshot.tracked
    /\ snapshot.first = Str(<<"2">>)
    /\ Len(calls) = 5
    /\ result = Str(<<"2">>)

(***************************************************************************)
(* Vocabulary of the properties of the loops over the rows.                *)
(***************************************************************************)
\* the lists of main and the issues on the server
Lists == <<failed_tasks, failed_users, skipped_issues, created_issues,
           updated_issues, issues>>

\* the rows the list has an entry for
RowsOf(list) == {list[i].row : i \in 1..Len(list)}

\* the script is between two rows, or past the last one
RowEnded == rpc \in {"loop", "end"} /\ row_idx >= 1

\* the last lookup of the lead of this row returned no account
LeadUnresolved ==
    /\ Truthy(loc.lead)
    /\ loc.user_account_id # Absent
    /\ ~Truthy(loc.user_account_id)

\* a request to create or update the issue of this row was sent
Submitted == loc.request.op # "none"

\* C12: the steps of find_jira_user leave the module-level variable, the row,
\* the locals of the loop, the lists and the issues on the server as they
\* are, and send nothing but 'user/search' lookups.
C12_NoSideEffects ==
    [][ pc' # "idle" =>
          /\ UNCHANGED <<DEFAULT_PROJECT_KEY, script, update, row_idx, row, loc>>
          /\ UNCHANGED Lists
          /\ \/ calls' = <<>>
             \/ calls' = calls
             \/ /\ Len(calls') = Len(calls) + 1
                /\ SubSeq(calls', 1, Len(calls)) = calls
                /\ calls'[Len(calls')].step \in {"email", "search"} ]_vars

\* the second lookup of the lead of row 2 ended, after a row that left a
\* failed user and an issue on the server
C12_Witness ==
    /\ pc = "done"
    /\ rpc = "lead2"
    /\ row_idx = 2
    /\ Len(calls) = 1
    /\ failed_users # <<>>
    /\ issues # <<>>

\* the row went through the body of the loop
Processed == loc.outcome \in {"created", "updated", "skipped", "failed"}

\* the row is of a type that creates an issue, and the search left it to do
ToSubmit ==
    \/ script = "qbv"
    \/ /\ \E t \in {EPIC, QBV, ONGOING} : IsType(row.type, t)
       /\ loc.searched = "none" \/ (loc.searched = "found" /\ update)

\* the next row, if the sheet has one, can be read
LoopGoesOn == (rpc = "loop" /\ row_idx < MaxRows) => ENABLED (\E r \in Rows : ReadRow(r))

\* C14: when the lookup of the lead of a row finds no account, in either
\* script, the run is not aborted, the row has an entry in failed_users, what
\* is sent for the row carries no assignee, the row is carried to its end as
\* any other row, and the loop goes on to the next row.
C14_UnresolvedLeadContinues ==
    LeadUnresolved =>
        /\ rpc # "aborted"
        /\ row_idx \in RowsOf(failed_users)
        /\ Submitted => loc.request.fields.assignee = Absent
        /\ ~RowEnded => ENABLED RowsNext
        /\ RowEnded => Processed /\ (ToSubmit => Submitted)
        /\ LoopGoesOn

\* excel2jira-qbv.py created the issue of row 2 without assignee, row 1 has
\* left a failed user too
C14_Witness ==
    /\ script = "qbv"
    /\ rpc = "loop"
    /\ row_idx = 2
    /\ LeadUnresolved
    /\ loc.outcome = "created"
    /\ loc.request.fields.assignee = Absent
    /\ RowsOf(failed_users) = {1, 2}

\* the project manager of this row has been looked up
ManagerLookedUp == loc.project_manager_account_id # Absent

\* C15: the description mentions the account, '@[~<accountId>]', when the
\* lookup of the project manager returned one, and the text of the cell,
\* '@<raw>', when it did not; whether a request is sent for the row depends
\* on the type, the search and --update only.
C15_MentionFollowsResolution ==
    ManagerLookedUp =>
        /\ loc.fields.description =
              IF IsStr(loc.project_manager_account_id)
                 /\ loc.project_manager_account_id.v # <<>>
              THEN [t |-> "mention of account", v |-> loc.project_manager_account_id.v]
              ELSE [t |-> "mention of text",
                    v |-> IF IsStr(row.pm) THEN row.pm.v ELSE <<"n","a","n">>]
        /\ Submitted => loc.request.fields.description \in {loc.fields.description, Absent}
        /\ (RowEnded /\ ~IsType(row.type, PROJECT)) => (Submitted <=> ToSubmit)
        /\ (RowEnded /\ IsType(row.type, PROJECT)) => (Submitted => loc.searched = "found")

\* an epic was created whose description mentions the text of an empty cell
C15_Witness ==
    /\ script = "v2"
    /\ RowEnded
    /\ IsType(row.type, EPIC)
    /\ row.pm = NaN
    /\ loc.outcome = "created"
    /\ loc.request.fields.description = [t |-> "mention of text", v |-> <<"n","a","n">>]

\* the issue API raised at the search, or at the request, of this row
ApiRaised == loc.searched = "raise" \/ loc.answered \in {"raise", "missing"}

\* the list only grows
Grows(list) == Len(list') >= Len(list) /\ SubSeq(list', 1, Len(list)) = list

\* C16: a row during which the issue API raised ends with an entry in
\* failed_tasks and the loop goes on to the next row; no step takes an entry
\* away from the issues on the server or from the lists, whatever happens to
\* the rows after it.
C16_FailureRecordedNoRollback ==
    /\ [](ApiRaised =>
            /\ rpc \in {"loop", "end"}
            /\ loc.outcome = "failed"
            /\ row_idx \in RowsOf(failed_tasks)
            /\ LoopGoesOn)
    /\ [][ /\ Grows(issues)
           /\ Grows(created_issues)
           /\ Grows(updated_issues)
           /\ Grows(failed_tasks) ]_vars

\* the creation of row 2 raised; the epic created for row 1 is still there
C16_Witness ==
    /\ script = "v2"
    /\ rpc = "loop"
    /\ row_idx = 2
    /\ loc.answered = "raise"
    /\ loc.request.op = "create"
    /\ RowsOf(failed_tasks) = {2}
    /\ RowsOf(created_issues) = {1}
    /\ RowsOf(issues) = {1}

\* the row is one of excel2jira-v2.py of type epic, qbv or on-going
CreatingRow == script = "v2" /\ \E t \in {EPIC, QBV, ONGOING} : IsType(row.type, t)

\* C17: in excel2jira-v2.py, for a row of type epic, qbv or on-going whose
\* search found an issue while --update was not given, no request to create
\* or update is sent, no issue of the row appears on the server, and the row
\* has its entry in skipped_issues and in no other list; a request to create
\* is sent only after a search that found nothing.
C17_ExistingIssueSkipped ==
    CreatingRow =>
        /\ (loc.searched = "found" /\ ~update) =>
              /\ RowEnded
              /\ ~Submitted
              /\ loc.outcome = "skipped"
              /\ row_idx \in RowsOf(skipped_issues)
              /\ row_idx \notin RowsOf(issues) \cup RowsOf(created_issues)
                                \cup RowsOf(updated_issues) \cup RowsOf(failed_tasks)
        /\ loc.request.op = "create" => loc.searched = "none"
        /\ row_idx \in RowsOf(created_issues) => loc.searched = "none"

\* the on-going row 2 was passed over; the epic of row 1 had been created
C17_Witness ==
    /\ script = "v2"
    /\ ~update
    /\ rpc = "loop"
    /\ row_idx = 2
    /\ IsType(row.type, ONGOING)
    /\ loc.searched = "found"
    /\ RowsOf(skipped_issues) = {2}
    /\ RowsOf(created_issues) = {1}

\* the number of entries the list has for row n
EntriesOf(list, n) == Cardinality({i \in 1..Len(list) : list[i].row = n})

\* the number of rows the loop is through with
RowsDone == IF rpc \in {"loop", "end"} THEN row_idx ELSE row_idx - 1

\* C21: in excel2jira-v2.py, once the loop is through with k rows, each of
\* them has one entry in one of created_issues, updated_issues,
\* skipped_issues and failed_tasks and none in the other three, and the
\* lengths of the four lists add up to k.
C21_RowAccounting ==
    script = "v2" =>
        /\ \A n \in 1..RowsDone :
              EntriesOf(created_issues, n) + EntriesOf(updated_issues, n)
                + EntriesOf(skipped_issues, n) + EntriesOf(failed_tasks, n) = 1
        /\ Len(created_issues) + Len(updated_issues)
             + Len(skipped_issues) + Len(failed_tasks) = RowsDone

\* two rows, one updated and one passed over with nothing to update
C21_Witness ==
    /\ script = "v2"
    /\ rpc = "end"
    /\ row_idx = 2
    /\ RowsOf(updated_issues) = {1}
    /\ RowsOf(skipped_issues) = {2}
    /\ failed_tasks = <<>>
    /\ created_issues = <<>>

\* C22: in excel2jira-v2.py, a row whose lead no lookup resolves has, at its
\* end, exactly one entry in failed_users after exactly one lookup of the
\* lead, whatever its type and whether or not it was passed over.
C22_OneEntryOneLookup ==
    ( /\ script = "v2"
      /\ RowEnded
      /\ Truthy(loc.lead)
      /\ EntriesOf(failed_users, row_idx) = loc.lead_lookups )
        => /\ loc.lead_lookups = 1
           /\ EntriesOf(failed_users, row_idx) = 1

\* the row is one of excel2jira-v2.py of type project
ProjectRow == script = "v2" /\ IsType(row.type, PROJECT)

\* C23: a row of type project of excel2jira-v2.py sends no request to create
\* and leaves no created issue, with or without --update; a request to update
\* follows a search that found the issue, carries every field of epic_fields
\* the issue holds no data for and no field it holds data for; the row is
\* passed over when every field is held already, and ends in failed_tasks
\* when the search found nothing.
C23_ProjectRowPreservesFields ==
    ProjectRow =>
        /\ loc.request.op # "create"
        /\ row_idx \notin RowsOf(created_issues)
        /\ Submitted =>
              /\ loc.searched = "found"
              /\ \A k \in FieldNames :
                    loc.request.fields[k] =
                       IF k \in loc.current_fields THEN Absent ELSE loc.fields[k]
              /\ \E k \in FieldNames : loc.request.fields[k] # Absent
        /\ (RowEnded /\ loc.searched = "found") =>
              IF \A k \in FieldNames : loc.fields[k] # Absent => k \in loc.current_fields
              THEN loc.outcome = "skipped" /\ ~Submitted
              ELSE loc.outcome \in {"updated", "failed"} /\ Submitted
        /\ (RowEnded /\ loc.searched # "found") =>
              /\ ~Submitted
              /\ loc.outcome = "failed"
              /\ row_idx \in RowsOf(failed_tasks)

\* without --update, the issue found held a summary and a description: the
\* update sent the assignee alone
C23_Witness ==
    /\ ProjectRow
    /\ ~update
    /\ RowEnded
    /\ loc.outcome = "updated"
    /\ loc.current_fields = {"summary", "description"}
    /\ loc.request.fields.description = Absent
    /\ loc.request.fields.assignee = Str(<<"1">>)

\* C24: with --update, a row of type epic, qbv or on-going of
\* excel2jira-v2.py whose search found an issue sends a request to update and
\* none to create; no row has more than one issue created or updated on the
\* server, nor entries in both created_issues and updated_issues.
C24_UpdateNeverCreates ==
    /\ (CreatingRow /\ update /\ loc.searched = "found") =>
          /\ loc.request.op # "create"
          /\ RowEnded => /\ loc.request.op = "update"
                          /\ loc.outcome \in {"updated", "failed"}
                          /\ row_idx \notin RowsOf(created_issues)
    /\ \A n \in 1..row_idx :
          /\ EntriesOf(issues, n) <= 1
          /\ EntriesOf(created_issues, n) + EntriesOf(updated_issues, n) <= 1

\* the epic of row 1 was created, the on-going issue found for row 2 updated
C24_Witness ==
    /\ script = "v2"
    /\ update
    /\ rpc = "loop"
    /\ row_idx = 2
    /\ IsType(row.type, ONGOING)
    /\ loc.searched = "found"
    /\ loc.request.op = "update"
    /\ RowsOf(created_issues) = {1}
    /\ RowsOf(updated_issues) = {2}

\* the start-up checks that have succeeded, in the order they did
ChecksPassed == SelectSeq(passed, LAMBDA step : \E i \in 1..Len(StartupChecks) : StartupChecks[i] = step)

\* a request to create or update was sent, or an issue created or updated
Requested ==
    \/ Submitted
    \/ issues # <<>>
    \/ created_issues # <<>>
    \/ updated_issues # <<>>

\* C25: in both scripts the start-up checks succeed in the order environment
\* variables, authentication, project access, field lookups, spreadsheet
\* load, column validation; a request to create or update an issue is sent
\* only after all six have; a check that fails ends the process with exit
\* status 1, nothing created or updated, and nothing runs after it.
C25_ChecksBeforeRequests ==
    /\ \E n \in 0..Len(StartupChecks) : ChecksPassed = SubSeq(StartupChecks, 1, n)
    /\ (Requested \/ row_idx > 0) => ChecksPassed = StartupChecks
    /\ \A i \in 1..Len(StartupSteps(script)) :
          rpc = StartupSteps(script)[i] => passed = SubSeq(StartupSteps(script), 1, i - 1)
    /\ (\E i \in 1..Len(StartupChecks) : exit_status.at = StartupChecks[i]) =>
          /\ exit_status.code = "1"
          /\ rpc = "exited"
          /\ ~Requested
          /\ ChecksPassed # StartupChecks
    /\ rpc = "exited" => ~ENABLED ScriptNext

\* excel2jira-qbv.py has passed its checks and created the issue of a row
C25_Witness ==
    /\ script = "qbv"
    /\ ChecksPassed = StartupChecks
    /\ exit_status = NotExited
    /\ rpc = "end"
    /\ Len(issues) = 1
    /\ loc.request.op = "create"

\* the helper has been applied
Applied(fn) == helper.fn = fn /\ helper.out # Absent

\* C26: without --quarter the quarter used is the one after the quarter of
\* the current month, Q1 following Q4: Q2 for months 1-3, Q3 for months 4-6,
\* Q4 for months 7-9, Q1 for months 10-12, the number always in 1..4; a
\* --quarter given is used as it is.
C26_NextQuarter ==
    Applied("quarter") =>
        LET m == helper.arg.v.month
        IN  /\ next_quarter(m) \in 1..4
            /\ IF helper.arg.v.quarter = None
               THEN helper.out = Str(<<"Q", IF m <= 3 THEN "2"
                                            ELSE IF m <= 6 THEN "3"
                                            ELSE IF m <= 9 THEN "4"
                                            ELSE "1">>)
               ELSE helper.out = helper.arg.v.quarter

\* in November, without --quarter: Q1
C26_Witness ==
    /\ Applied("quarter")
    /\ helper.arg.v = [month |-> 11, quarter |-> None]
    /\ helper.out = Str(<<"Q", "1">>)

\* cell[a..b] is a label written in the cell: no comma in it, no space at
\* its ends, and only spaces between it and the commas (or the ends of the
\* cell) around it
Occurrence(cell, a, b) ==
    /\ a <= b
    /\ \A k \in a..b : cell[k] # ","
    /\ cell[a] # " " /\ cell[b] # " "
    /\ \E k \in 0..(a - 1) :
          /\ k = 0 \/ cell[k] = ","
          /\ \A n \in (k + 1)..(a - 1) : cell[n] = " "
    /\ \E k \in (b + 1)..(Len(cell) + 1) :
          /\ k = Len(cell) + 1 \/ cell[k] = ","
          /\ \A n \in (b + 1)..(k - 1) : cell[n] = " "

\* the labels written in the cell that no label written before them equals
\* ignoring case, as <<a, b>>
FirstOccurrences(cell) ==
    LET all == {ab \in (1..Len(cell)) \X (1..Len(cell)) : Occurrence(cell, ab[1], ab[2])}
    IN  {ab \in all : \A cd \in all :
            cd[1] < ab[1] => Lower(SubSeq(cell, cd[1], cd[2])) # Lower(SubSeq(cell, ab[1], ab[2]))}

\* C27: process_labels returns the labels written between the commas of the
\* cell, trimmed, none empty, none equal to another ignoring case: of the
\* labels equal ignoring case the first written is kept, in its own case,
\* and the labels kept are in the order they are written; an empty cell
\* gives the empty list; the defaulting of line 343 replaces an empty list
\* by ['excel2jira'] and keeps any other, so the labels of a row are never
\* empty.
C27_LabelsTrimmedUniqueOrdered ==
    Applied("process_labels") =>
        LET out == helper.out.v
        IN  /\ \A i \in 1..Len(out) :
                  /\ out[i].v # <<>>
                  /\ out[i].v[1] # " " /\ out[i].v[Len(out[i].v)] # " "
                  /\ \A k \in 1..Len(out[i].v) : out[i].v[k] # ","
            /\ \A i, j \in 1..Len(out) : i # j => Lower(out[i].v) # Lower(out[j].v)
            /\ helper.arg = NaN => out = <<>>
            /\ helper.arg # NaN =>
                  LET cell == helper.arg.v
                      first == FirstOccurrences(cell)
                      Start(label) == CHOOSE a \in 1..Len(cell) :
                                         \E ab \in first : ab[1] = a /\ SubSeq(cell, ab[1], ab[2]) = label
                  IN  /\ {out[i].v : i \in 1..Len(out)} = {SubSeq(cell, ab[1], ab[2]) : ab \in first}
                      /\ Len(out) = Cardinality(first)
                      /\ \A i, j \in 1..Len(out) : i < j => Start(out[i].v) < Start(out[j].v)
            /\ helper.follow # Absent =>
                  /\ helper.follow.v # <<>>
                  /\ helper.follow = IF out = <<>>
                                     THEN List(<<Str(<<"e","x","c","e","l","2","j","i","r","a">>)>>)
                                     ELSE helper.out

\* 'A, a' gives ['A'], which the defaulting keeps
C27_Witness ==
    /\ Applied("process_labels")
    /\ helper.arg = Str(<<"A", ",", " ", "a">>)
    /\ helper.out = List(<<Str(<<"A">>)>>)
    /\ helper.follow = helper.out

\* C28: the result of clean_dod_field holds no newline and no carriage
\* return, no two spaces in a row, no character other than word characters,
\* whitespace and . , ; : ( ) -, and at most 255 characters, the last three
\* '...' when it was cut; clean_dod_field applied to its result gives the
\* result back.
C28_CleanAndIdempotent ==
    Applied("clean_dod_field") =>
        LET out == helper.out.v
        IN  /\ \A i \in 1..Len(out) : out[i] \notin {"\n", "\r"} /\ Kept(out[i])
            /\ \A i \in 1..(Len(out) - 1) : ~(out[i] = " " /\ out[i + 1] = " ")
            /\ Len(out) <= MaxDodLength
            /\ (~IsNa(helper.arg) /\ Len(Sanitized(helper.arg)) > MaxDodLength) =>
                  /\ Len(out) = MaxDodLength
                  /\ SubSeq(out, Len(out) - 2, Len(out)) = <<".", ".", ".">>
            /\ helper.follow # Absent => helper.follow = helper.out

====
